---- MODULE Spec2Model ----
(***************************************************************************)
(* Model of src/qp.py, the Streamlit script "AI Question Paper Solver".    *)
(*                                                                         *)
(* One script execution ("run") is the top-to-bottom execution of qp.py    *)
(* for one browser session.  Streamlit executes the script of every        *)
(* session in a thread of the same server process, so runs interleave and  *)
(* share the working directory (temp_files/) and the remote file service.  *)
(* Every statement of the script that touches the file system, the remote  *)
(* service or the page is one step of the run; the environment decides     *)
(* whether a call that can raise does raise.                               *)
(*                                                                         *)
(* st.stop() raises StopException, a BaseException: "except Exception"     *)
(* does not catch it, "finally" blocks run, and the script runner ends the *)
(* run silently.  Any other exception that leaves the script is uncaught.  *)
(***************************************************************************)
EXTENDS Integers, Sequences, FiniteSets, TLC

\* ---- bounds of the model ----
NumRuns == 2      \* script executions that may interleave
MaxChunks == 2    \* chunks the remote stream delivers at most

Runs == 1..NumRuns
Names == {"x.pdf", "y.pdf"}          \* uploaded_file.name
Bytes == {"p", "q"}                  \* uploaded_file.getvalue()
Empty == "empty"                     \* content of a file just truncated by open(.., "wb")
Chunks == {<<>>, <<"a">>, <<"b">>}   \* chunk.text; <<>> is the empty string
None == "None"
NoFile == [ino |-> 0, bytes |-> None]
NoUploadedFile == [name |-> None, bytes |-> None]

VARIABLES
  api_key,              \* line 14: the credential of the process
  fs,                   \* temp_files/: temp_pdf_path -> file (or NoFile)
  remote,               \* handles of the files the remote service holds
  nextHandle,           \* next handle the remote service hands out
  pc,                   \* position of each run in the script
  uploaded_file,        \* line 35: None or [name, bytes]
  fd,                   \* inode the run's open() at line 53 returned (0: none)
  question_paper_file,  \* line 49/61: 0 (None) or the remote handle
  calls,                \* per run: the remote calls attempted, in order
  received,             \* per run: chunks the remote stream delivered
  chunk,                \* per run: the chunk the generator is handling
  full_response_text,   \* line 144
  relayed,              \* per run: chunks the generator yielded to write_stream
  msgs,                 \* per run: what st.error/st.warning/st.success showed
  exc,                  \* per run: exception in flight while finally runs,
                        \*   "Stop" or "OSError@<line that raised>"
  uncaught,             \* per run: the exception that left the script
  removeFailed          \* per run: an os.remove of this run raised

vars == <<api_key, fs, remote, nextHandle, pc, uploaded_file, fd,
          question_paper_file, calls, received, chunk, full_response_text,
          relayed, msgs, exc, uncaught, removeFailed>>

\* groups of variables, for UNCHANGED
shared == <<api_key, fs, remote, nextHandle>>
streamVars == <<received, chunk, full_response_text, relayed>>

\* temp_pdf_path = temp_dir / f"temp_{uploaded_file.name}" (line 48): the path
\* is a function of the uploaded name alone.
temp_pdf_path(r) == uploaded_file[r].name

\* temp_pdf_path.exists() (lines 88, 117, 195)
Exists(r) == fs[temp_pdf_path(r)] # NoFile

\* st.error / st.warning / st.success / st.info
Show(r, m) == msgs' = [msgs EXCEPT ![r] = @ \cup {m}]

\* a call on the remote service, as a fake collaborator would record it
Call(r, op, h, data) ==
  calls' = [calls EXCEPT ![r] = Append(@, [op |-> op, h |-> h, data |-> data])]

Goto(r, l) == pc' = [pc EXCEPT ![r] = l]

\* the string concatenation full_response_text += chunk.text
RECURSIVE Concat(_)
Concat(ss) == IF ss = <<>> THEN <<>> ELSE Head(ss) \o Concat(Tail(ss))

IsPrefix(s, t) == Len(s) <= Len(t) /\ SubSeq(t, 1, Len(s)) = s

Init ==
  /\ api_key \in {"", "valid-key"}
  /\ fs = [n \in Names |-> NoFile]
  /\ remote = {}
  /\ nextHandle = 1
  /\ pc = [r \in Runs |-> "api_key_check"]
  /\ uploaded_file = [r \in Runs |-> NoUploadedFile]
  /\ fd = [r \in Runs |-> 0]
  /\ question_paper_file = [r \in Runs |-> 0]
  /\ calls = [r \in Runs |-> <<>>]
  /\ received = [r \in Runs |-> <<>>]
  /\ chunk = [r \in Runs |-> <<>>]
  /\ full_response_text = [r \in Runs |-> <<>>]
  /\ relayed = [r \in Runs |-> <<>>]
  /\ msgs = [r \in Runs |-> {}]
  /\ exc = [r \in Runs |-> None]
  /\ uncaught = [r \in Runs |-> None]
  /\ removeFailed = [r \in Runs |-> FALSE]

\* ApiKeyMissing without the st.stop() of line 25: the script goes on
ApiKeyMissing_NoStop(r) ==
  /\ pc[r] = "api_key_check"
  /\ api_key = ""
  /\ Show(r, "error_api_key")
  /\ Goto(r, "file_uploader")
  /\ UNCHANGED <<shared, streamVars, uploaded_file, fd, question_paper_file,
                 calls, exc, uncaught, removeFailed>>

\* ---- lines 23-25: no credential: st.error, st.stop ----
ApiKeyMissing(r) ==
  /\ pc[r] = "api_key_check"
  /\ api_key = ""
  /\ Show(r, "error_api_key")
  /\ Goto(r, "done")
  /\ UNCHANGED <<shared, streamVars, uploaded_file, fd, question_paper_file,
                 calls, exc, uncaught, removeFailed>>

\* ---- lines 26-29: genai.configure succeeds ----
Configure(r) ==
  /\ pc[r] = "api_key_check"
  /\ api_key # ""
  /\ Goto(r, "file_uploader")
  /\ UNCHANGED <<shared, streamVars, uploaded_file, fd, question_paper_file,
                 calls, msgs, exc, uncaught, removeFailed>>

\* ---- lines 30-32: genai.configure raises: st.error, st.stop ----
ConfigureFails(r) ==
  /\ pc[r] = "api_key_check"
  /\ api_key # ""
  /\ Show(r, "error_configure")
  /\ Goto(r, "done")
  /\ UNCHANGED <<shared, streamVars, uploaded_file, fd, question_paper_file,
                 calls, exc, uncaught, removeFailed>>

\* ---- lines 35-42, 212-216: nothing uploaded yet ----
NoUpload(r) ==
  /\ pc[r] = "file_uploader"
  /\ Goto(r, "done")
  /\ UNCHANGED <<shared, streamVars, uploaded_file, fd, question_paper_file,
                 calls, msgs, exc, uncaught, removeFailed>>

\* ---- lines 35-49: a file was submitted; temp_dir.mkdir succeeds ----
Submit(r) ==
  /\ pc[r] = "file_uploader"
  /\ \E n \in Names, b \in Bytes :
       uploaded_file' = [uploaded_file EXCEPT ![r] = [name |-> n, bytes |-> b]]
  /\ Goto(r, "open")
  /\ UNCHANGED <<shared, streamVars, fd, question_paper_file,
                 calls, msgs, exc, uncaught, removeFailed>>

\* ---- line 47: temp_dir.mkdir raises, outside every try ----
MkdirFails(r) ==
  /\ pc[r] = "file_uploader"
  /\ \E n \in Names, b \in Bytes :
       uploaded_file' = [uploaded_file EXCEPT ![r] = [name |-> n, bytes |-> b]]
  /\ uncaught' = [uncaught EXCEPT ![r] = "OSError@47"]
  /\ Goto(r, "done")
  /\ UNCHANGED <<shared, streamVars, fd, question_paper_file,
                 calls, msgs, exc, removeFailed>>

\* ---- lines 192-210: entering the finally block, and leaving it ----
\* An exception in flight (exc) is re-raised when the block ends: OSError
\* leaves the script uncaught, StopException ends the run silently.
EndRun(r) ==
  /\ uncaught' = [uncaught EXCEPT ![r] = IF exc[r] = "Stop" THEN None ELSE exc[r]]
  /\ Goto(r, "done")

\* AfterRemove without the remote cleanup of lines 203-210
AfterRemove_SkipsDelete(r) == EndRun(r)

\* line 203: if question_paper_file: ... else the block ends
AfterRemove(r) ==
  IF question_paper_file[r] # 0
    THEN Goto(r, "finally_delete") /\ UNCHANGED uncaught
    ELSE EndRun(r)

\* ---- line 53: open(temp_pdf_path, "wb") creates or truncates the file ----
Open(r) ==
  /\ pc[r] = "open"
  /\ LET p == temp_pdf_path(r)
         i == IF Exists(r) THEN fs[p].ino ELSE r
     IN /\ fs' = [fs EXCEPT ![p] = [ino |-> i, bytes |-> Empty]]
        /\ fd' = [fd EXCEPT ![r] = i]
  /\ Goto(r, "write")
  /\ UNCHANGED <<api_key, remote, nextHandle, streamVars, uploaded_file,
                 question_paper_file, calls, msgs, exc, uncaught, removeFailed>>

\* ---- line 53: open raises (permission denied): only the finally block ----
OpenFails(r) ==
  /\ pc[r] = "open"
  /\ exc' = [exc EXCEPT ![r] = "OSError@53"]
  /\ Goto(r, "finally_exists")
  /\ UNCHANGED <<shared, streamVars, uploaded_file, fd, question_paper_file,
                 calls, msgs, uncaught, removeFailed>>

\* ---- line 54: f.write(uploaded_file.getvalue()) ----
\* The bytes go to the inode the run opened; they are visible at the path
\* only while the path still names that inode.
Write(r) ==
  /\ pc[r] = "write"
  /\ LET p == temp_pdf_path(r)
     IN fs' = IF fs[p].ino = fd[r]
                THEN [fs EXCEPT ![p].bytes = uploaded_file[r].bytes]
                ELSE fs
  /\ Goto(r, "upload")
  /\ UNCHANGED <<api_key, remote, nextHandle, streamVars, uploaded_file, fd,
                 question_paper_file, calls, msgs, exc, uncaught, removeFailed>>

\* ---- line 54: f.write raises (disk full): only the finally block ----
WriteFails(r) ==
  /\ pc[r] = "write"
  /\ exc' = [exc EXCEPT ![r] = "OSError@54"]
  /\ Goto(r, "finally_exists")
  /\ UNCHANGED <<shared, streamVars, uploaded_file, fd, question_paper_file,
                 calls, msgs, uncaught, removeFailed>>

\* ---- lines 61-67: genai.upload_file returns a handle ----
UploadOk(r) ==
  /\ pc[r] = "upload"
  /\ Exists(r)
  /\ question_paper_file' = [question_paper_file EXCEPT ![r] = nextHandle]
  /\ remote' = remote \cup {nextHandle}
  /\ nextHandle' = nextHandle + 1
  /\ Call(r, "upload", nextHandle, fs[temp_pdf_path(r)].bytes)
  /\ Goto(r, "model")
  /\ UNCHANGED <<api_key, fs, streamVars, uploaded_file, fd,
                 msgs, exc, uncaught, removeFailed>>

\* ---- lines 61, 85-86: genai.upload_file raises (the file is gone, or the
\* service fails): st.error ----
UploadFails(r) ==
  /\ pc[r] = "upload"
  /\ Call(r, "upload", 0, fs[temp_pdf_path(r)].bytes)
  /\ Show(r, "error_upload")
  /\ Goto(r, "uh_exists")
  /\ UNCHANGED <<shared, streamVars, uploaded_file, fd, question_paper_file,
                 exc, uncaught, removeFailed>>

\* ---- lines 88, 90: the upload handler tests the temp file; if it is gone,
\* st.stop ----
UploadHandlerExists(r) ==
  /\ pc[r] = "uh_exists"
  /\ IF Exists(r)
       THEN Goto(r, "uh_remove") /\ UNCHANGED exc
       ELSE Goto(r, "finally_exists") /\ exc' = [exc EXCEPT ![r] = "Stop"]
  /\ UNCHANGED <<shared, streamVars, uploaded_file, fd, question_paper_file,
                 calls, msgs, uncaught, removeFailed>>

\* UploadHandlerRemove without the st.stop() of line 90: the script goes on
\* to the model construction
UploadHandlerRemove_NoStop(r) ==
  /\ pc[r] = "uh_remove"
  /\ Exists(r)
  /\ fs' = [fs EXCEPT ![temp_pdf_path(r)] = NoFile]
  /\ Goto(r, "model")
  /\ UNCHANGED <<api_key, remote, nextHandle, streamVars, uploaded_file, fd,
                 question_paper_file, calls, msgs, exc, uncaught, removeFailed>>

\* ---- lines 89-90: os.remove succeeds, st.stop ----
UploadHandlerRemove(r) ==
  /\ pc[r] = "uh_remove"
  /\ Exists(r)
  /\ fs' = [fs EXCEPT ![temp_pdf_path(r)] = NoFile]
  /\ exc' = [exc EXCEPT ![r] = "Stop"]
  /\ Goto(r, "finally_exists")
  /\ UNCHANGED <<api_key, remote, nextHandle, streamVars, uploaded_file, fd,
                 question_paper_file, calls, msgs, uncaught, removeFailed>>

\* ---- line 89: os.remove raises inside the except handler: no try around it
UploadHandlerRemoveFails(r) ==
  /\ pc[r] = "uh_remove"
  /\ removeFailed' = [removeFailed EXCEPT ![r] = TRUE]
  /\ exc' = [exc EXCEPT ![r] = "OSError@89"]
  /\ Goto(r, "finally_exists")
  /\ UNCHANGED <<shared, streamVars, uploaded_file, fd, question_paper_file,
                 calls, msgs, uncaught>>

\* ---- lines 107-113: genai.GenerativeModel(...) ----
ModelOk(r) ==
  /\ pc[r] = "model"
  /\ Goto(r, "generate")
  /\ UNCHANGED <<shared, streamVars, uploaded_file, fd, question_paper_file,
                 calls, msgs, exc, uncaught, removeFailed>>

\* ---- lines 114-115: genai.GenerativeModel raises: st.error ----
ModelFails(r) ==
  /\ pc[r] = "model"
  /\ Show(r, "error_model")
  /\ Goto(r, "mh_exists")
  /\ UNCHANGED <<shared, streamVars, uploaded_file, fd, question_paper_file,
                 calls, exc, uncaught, removeFailed>>

\* line 120: if question_paper_file: delete it; line 124: st.stop
ModelHandlerNext(r) ==
  IF question_paper_file[r] # 0
    THEN Goto(r, "mh_delete") /\ UNCHANGED exc
    ELSE Goto(r, "finally_exists") /\ exc' = [exc EXCEPT ![r] = "Stop"]

\* ---- line 117: the model handler tests the temp file ----
ModelHandlerExists(r) ==
  /\ pc[r] = "mh_exists"
  /\ IF Exists(r)
       THEN Goto(r, "mh_remove") /\ UNCHANGED exc
       ELSE ModelHandlerNext(r)
  /\ UNCHANGED <<shared, streamVars, uploaded_file, fd, question_paper_file,
                 calls, msgs, uncaught, removeFailed>>

\* ---- line 118: os.remove succeeds ----
ModelHandlerRemove(r) ==
  /\ pc[r] = "mh_remove"
  /\ Exists(r)
  /\ fs' = [fs EXCEPT ![temp_pdf_path(r)] = NoFile]
  /\ ModelHandlerNext(r)
  /\ UNCHANGED <<api_key, remote, nextHandle, streamVars, uploaded_file, fd,
                 question_paper_file, calls, msgs, uncaught, removeFailed>>

\* ---- line 118: os.remove raises inside the except handler ----
ModelHandlerRemoveFails(r) ==
  /\ pc[r] = "mh_remove"
  /\ removeFailed' = [removeFailed EXCEPT ![r] = TRUE]
  /\ exc' = [exc EXCEPT ![r] = "OSError@118"]
  /\ Goto(r, "finally_exists")
  /\ UNCHANGED <<shared, streamVars, uploaded_file, fd, question_paper_file,
                 calls, msgs, uncaught>>

\* ---- lines 121-124: genai.delete_file in the model handler, st.stop ----
ModelHandlerDelete(r) ==
  /\ pc[r] = "mh_delete"
  /\ question_paper_file[r] \in remote
  /\ remote' = remote \ {question_paper_file[r]}
  /\ Call(r, "delete", question_paper_file[r], None)
  /\ exc' = [exc EXCEPT ![r] = "Stop"]
  /\ Goto(r, "finally_exists")
  /\ UNCHANGED <<api_key, fs, nextHandle, streamVars, uploaded_file, fd,
                 question_paper_file, msgs, uncaught, removeFailed>>

\* ---- lines 122-124: delete_file raises: "except Exception: pass", st.stop
ModelHandlerDeleteFails(r) ==
  /\ pc[r] = "mh_delete"
  /\ Call(r, "delete", question_paper_file[r], None)
  /\ exc' = [exc EXCEPT ![r] = "Stop"]
  /\ Goto(r, "finally_exists")
  /\ UNCHANGED <<shared, streamVars, uploaded_file, fd, question_paper_file,
                 msgs, uncaught, removeFailed>>

\* ---- lines 132-139: model.generate_content(..., stream=True) returns ----
GenerateOk(r) ==
  /\ pc[r] = "generate"
  /\ question_paper_file[r] \in remote
  /\ Call(r, "generate", question_paper_file[r], None)
  /\ Goto(r, "stream_next")
  /\ UNCHANGED <<shared, streamVars, uploaded_file, fd, question_paper_file,
                 msgs, exc, uncaught, removeFailed>>

\* ---- lines 134, 182-190: generate_content raises: the placeholder is
\* cleared, st.error, st.warning; then the finally block ----
GenerateFails(r) ==
  /\ pc[r] = "generate"
  /\ Call(r, "generate", question_paper_file[r], None)
  /\ Show(r, "error_generation")
  /\ Goto(r, "finally_exists")
  /\ UNCHANGED <<shared, streamVars, uploaded_file, fd, question_paper_file,
                 exc, uncaught, removeFailed>>

\* ---- lines 146-147: the stream delivers a chunk; an empty chunk.text is
\* skipped ----
StreamChunk(r) ==
  /\ pc[r] = "stream_next"
  /\ Len(received[r]) < MaxChunks
  /\ \E c \in Chunks :
       /\ received' = [received EXCEPT ![r] = Append(@, c)]
       /\ chunk' = [chunk EXCEPT ![r] = c]
       /\ Goto(r, IF c # <<>> THEN "stream_append" ELSE "stream_next")
  /\ UNCHANGED <<shared, full_response_text, relayed, uploaded_file, fd,
                 question_paper_file, calls, msgs, exc, uncaught, removeFailed>>

\* StreamAppend with the operands of the concatenation swapped
StreamAppend_Prepends(r) ==
  /\ pc[r] = "stream_append"
  /\ full_response_text' = [full_response_text EXCEPT ![r] = chunk[r] \o @]
  /\ Goto(r, "stream_yield")
  /\ UNCHANGED <<shared, received, chunk, relayed, uploaded_file, fd,
                 question_paper_file, calls, msgs, exc, uncaught, removeFailed>>

\* ---- line 149: full_response_text += chunk.text ----
StreamAppend(r) ==
  /\ pc[r] = "stream_append"
  /\ full_response_text' = [full_response_text EXCEPT ![r] = @ \o chunk[r]]
  /\ Goto(r, "stream_yield")
  /\ UNCHANGED <<shared, received, chunk, relayed, uploaded_file, fd,
                 question_paper_file, calls, msgs, exc, uncaught, removeFailed>>

\* ---- lines 150-151, 166: yield chunk.text; write_stream renders it ----
StreamYield(r) ==
  /\ pc[r] = "stream_yield"
  /\ relayed' = [relayed EXCEPT ![r] = Append(@, chunk[r])]
  /\ Goto(r, "stream_next")
  /\ UNCHANGED <<shared, received, chunk, full_response_text, uploaded_file, fd,
                 question_paper_file, calls, msgs, exc, uncaught, removeFailed>>

\* ---- line 146: the stream is exhausted; the generator returns ----
StreamEnd(r) ==
  /\ pc[r] = "stream_next"
  /\ Goto(r, "finished")
  /\ UNCHANGED <<shared, streamVars, uploaded_file, fd, question_paper_file,
                 calls, msgs, exc, uncaught, removeFailed>>

\* ---- lines 146, 153-159: the stream raises; the generator catches it,
\* st.error, st.warning, and returns normally ----
StreamRaises(r) ==
  /\ pc[r] = "stream_next"
  /\ Show(r, "error_streaming")
  /\ Goto(r, "finished")
  /\ UNCHANGED <<shared, streamVars, uploaded_file, fd, question_paper_file,
                 calls, exc, uncaught, removeFailed>>

\* ---- lines 166, 172: write_stream returned; st.success ----
\* The generator's frame (full_response_text, chunk), the exhausted stream
\* and the list write_stream built and returned (line 166 drops it) are gone.
Finished(r) ==
  /\ pc[r] = "finished"
  /\ Show(r, "success_finished")
  /\ received' = [received EXCEPT ![r] = <<>>]
  /\ chunk' = [chunk EXCEPT ![r] = <<>>]
  /\ full_response_text' = [full_response_text EXCEPT ![r] = <<>>]
  /\ relayed' = [relayed EXCEPT ![r] = <<>>]
  /\ Goto(r, "finally_exists")
  /\ UNCHANGED <<shared, uploaded_file, fd, question_paper_file,
                 calls, exc, uncaught, removeFailed>>

\* FinallyExists without the local cleanup of lines 195-200
FinallyExists_SkipsRemove(r) ==
  /\ pc[r] = "finally_exists"
  /\ AfterRemove(r)
  /\ UNCHANGED <<shared, streamVars, uploaded_file, fd, question_paper_file,
                 calls, msgs, exc, removeFailed>>

\* ---- lines 195, 203: finally: if temp_pdf_path.exists() ----
FinallyExists(r) ==
  /\ pc[r] = "finally_exists"
  /\ IF Exists(r)
       THEN Goto(r, "finally_remove") /\ UNCHANGED uncaught
       ELSE AfterRemove(r)
  /\ UNCHANGED <<shared, streamVars, uploaded_file, fd, question_paper_file,
                 calls, msgs, exc, removeFailed>>

\* ---- lines 196-197, 203: os.remove succeeds ----
FinallyRemove(r) ==
  /\ pc[r] = "finally_remove"
  /\ Exists(r)
  /\ fs' = [fs EXCEPT ![temp_pdf_path(r)] = NoFile]
  /\ AfterRemove(r)
  /\ UNCHANGED <<api_key, remote, nextHandle, streamVars, uploaded_file, fd,
                 question_paper_file, calls, msgs, exc, removeFailed>>

\* ---- lines 197-200, 203: os.remove raises: st.warning ----
FinallyRemoveFails(r) ==
  /\ pc[r] = "finally_remove"
  /\ removeFailed' = [removeFailed EXCEPT ![r] = TRUE]
  /\ Show(r, "warning_remove")
  /\ AfterRemove(r)
  /\ UNCHANGED <<shared, streamVars, uploaded_file, fd, question_paper_file,
                 calls, exc>>

\* ---- lines 204-208: genai.delete_file succeeds: st.info; the block ends
FinallyDelete(r) ==
  /\ pc[r] = "finally_delete"
  /\ question_paper_file[r] \in remote
  /\ remote' = remote \ {question_paper_file[r]}
  /\ Call(r, "delete", question_paper_file[r], None)
  /\ EndRun(r)
  /\ UNCHANGED <<api_key, fs, nextHandle, streamVars, uploaded_file, fd,
                 question_paper_file, msgs, exc, removeFailed>>

\* ---- lines 207-210: genai.delete_file raises (the handle is unknown to the
\* service, or the service fails): st.warning; the block ends ----
FinallyDeleteFails(r) ==
  /\ pc[r] = "finally_delete"
  /\ Call(r, "delete", question_paper_file[r], None)
  /\ Show(r, "warning_delete")
  /\ EndRun(r)
  /\ UNCHANGED <<shared, streamVars, uploaded_file, fd, question_paper_file,
                 exc, removeFailed>>

Step(r) ==
    \/ ApiKeyMissing(r)
    \/ Configure(r)
    \/ ConfigureFails(r)
    \/ NoUpload(r)
    \/ Submit(r)
    \/ MkdirFails(r)
    \/ Open(r)
    \/ OpenFails(r)
    \/ Write(r)
    \/ WriteFails(r)
    \/ UploadOk(r)
    \/ UploadFails(r)
    \/ UploadHandlerExists(r)
    \/ UploadHandlerRemove(r)
    \/ UploadHandlerRemoveFails(r)
    \/ ModelOk(r)
    \/ ModelFails(r)
    \/ ModelHandlerExists(r)
    \/ ModelHandlerRemove(r)
    \/ ModelHandlerRemoveFails(r)
    \/ ModelHandlerDelete(r)
    \/ ModelHandlerDeleteFails(r)
    \/ GenerateOk(r)
    \/ GenerateFails(r)
    \/ StreamChunk(r)
    \/ StreamAppend(r)
    \/ StreamYield(r)
    \/ StreamEnd(r)
    \/ StreamRaises(r)
    \/ Finished(r)
    \/ FinallyExists(r)
    \/ FinallyRemove(r)
    \/ FinallyRemoveFails(r)
    \/ FinallyDelete(r)
    \/ FinallyDeleteFails(r)

\* the runs of the server process interleave
Next == \E r \in Runs : Step(r)

Spec == Init /\ [][Next]_vars

\* one run alone: no other session is active
NextSolo == Step(1)

SpecSolo == Init /\ [][NextSolo]_vars

(***************************************************************************)
(* Properties                                                              *)
(***************************************************************************)
Done(r) == pc[r] = "done"

\* the run attempted the remote call op
HasCall(r, op) == \E i \in DOMAIN calls[r] : calls[r][i].op = op

\* the path of the run still names the file the run opened at line 53
TempFileLinked(r) == fd[r] # 0 /\ fs[temp_pdf_path(r)].ino = fd[r]

ErrorMsgs == {"error_api_key", "error_configure", "error_upload", "error_model",
              "error_generation", "error_streaming"}

NonEmptyChunk(c) == c # <<>>

\* C1: with an empty credential every run reports the configuration error and
\* stops: no run gets past the credential check, no remote call (upload,
\* generate, delete) is attempted and no temp file is written.
C1_NoCredentialNoAction ==
  api_key = "" =>
    /\ \A r \in Runs :
         /\ pc[r] \in {"api_key_check", "done"}
         /\ calls[r] = <<>>
         /\ Done(r) => msgs[r] = {"error_api_key"}
    /\ \A n \in Names : fs[n] = NoFile

C1_Witness == api_key = "" /\ \A r \in Runs : Done(r)

\* C2: within a run, once a delete of a handle has been issued no later remote
\* call (generate or delete) names that handle.
C2_NoUseAfterDelete ==
  \A r \in Runs : \A i, j \in DOMAIN calls[r] :
    (i < j /\ calls[r][i].op = "delete") => calls[r][j].h # calls[r][i].h

\* C3: when a run has ended, the temp file it created no longer exists.
C3_TempFileGone ==
  \A r \in Runs : Done(r) => ~TempFileLinked(r)

\* C3 as amended: when a run has ended, the temp file it created no longer
\* exists unless an os.remove of that run raised.
C3_TempFileGoneUnlessRemoveFails ==
  \A r \in Runs : (Done(r) /\ TempFileLinked(r)) => removeFailed[r]

C3_Witness ==
  \E r \in Runs :
    /\ Done(r) /\ fd[r] # 0 /\ ~TempFileLinked(r) /\ ~removeFailed[r]
    /\ "error_generation" \in msgs[r]

\* C4: no run ends with an exception propagating uncaught out of the script.
C4_NoUncaughtException ==
  \A r \in Runs : uncaught[r] = None

\* C5: the chunks yielded to the renderer are exactly the non-empty chunks
\* received, in the order received (the one being handled excepted); the
\* concatenation of the yielded chunks is a prefix of full_response_text, and
\* equals it when the stream has ended, normally or by an error.
C5_StreamRelay ==
  \A r \in Runs :
    /\ IF pc[r] \in {"stream_append", "stream_yield"}
         THEN SelectSeq(received[r], NonEmptyChunk) = Append(relayed[r], chunk[r])
         ELSE SelectSeq(received[r], NonEmptyChunk) = relayed[r]
    /\ IsPrefix(Concat(relayed[r]), full_response_text[r])
    /\ pc[r] \in {"stream_next", "finished"} =>
         Concat(relayed[r]) = full_response_text[r]

C5_Witness ==
  \E r \in Runs :
    /\ pc[r] = "finished"
    /\ "error_streaming" \in msgs[r]
    /\ received[r] = <<<<"b">>, <<"a">>>>
    /\ full_response_text[r] = <<"b", "a">>

\* C6: an os.remove that raises in a cleanup never leaves the script as an
\* uncaught exception.
C6_CleanupFailureNotEscalated ==
  \A r \in Runs : uncaught[r] \notin {"OSError@89", "OSError@118"}

\* C7: a run whose upload failed ends with the upload error only, never calls
\* generate, attempts no remote delete, and its temp file is removed.
C7_UploadFailure ==
  \A r \in Runs :
    (Done(r) /\ "error_upload" \in msgs[r]) =>
      /\ msgs[r] \cap ErrorMsgs = {"error_upload"}
      /\ ~HasCall(r, "generate")
      /\ ~HasCall(r, "delete")
      /\ ~TempFileLinked(r)

\* C7 as amended: a run whose upload failed ends with the upload error only,
\* never calls generate, attempts no remote delete, and its temp file is
\* removed unless an os.remove of that run raised.
C7_UploadFailureUnlessRemoveFails ==
  \A r \in Runs :
    "error_upload" \in msgs[r] =>
      /\ msgs[r] \cap ErrorMsgs = {"error_upload"}
      /\ "success_finished" \notin msgs[r]
      /\ question_paper_file[r] = 0
      /\ ~HasCall(r, "generate")
      /\ ~HasCall(r, "delete")
      /\ (Done(r) /\ TempFileLinked(r)) => removeFailed[r]

C7_Witness ==
  \A r \in Runs :
    /\ Done(r) /\ "error_upload" \in msgs[r]
    /\ fd[r] # 0 /\ ~TempFileLinked(r) /\ ~removeFailed[r]
    /\ uncaught[r] = None

\* C8: a run that obtained a remote handle has attempted to delete it by the
\* time it ends, and a delete is issued only when the run is past the
\* consumption of the response.
C8_HandleDeleteAttempted ==
  \A r \in Runs :
    /\ (Done(r) /\ question_paper_file[r] # 0) =>
         \E i \in DOMAIN calls[r] :
           calls[r][i].op = "delete" /\ calls[r][i].h = question_paper_file[r]
    /\ HasCall(r, "delete") =>
         pc[r] \in {"finally_exists", "finally_remove", "finally_delete", "done"}

C8_Witness ==
  \E r \in Runs :
    /\ Done(r) /\ "success_finished" \in msgs[r]
    /\ "error_streaming" \notin msgs[r]
    /\ HasCall(r, "delete")

\* C9: the bytes a run uploads are the bytes that run received.
C9_UploadsOwnBytes ==
  \A r \in Runs : \A i \in DOMAIN calls[r] :
    (calls[r][i].op = "upload" /\ calls[r][i].h # 0) =>
      calls[r][i].data = uploaded_file[r].bytes

\* C10: no run shows both a generation or streaming error and the success
\* status.
C10_NoSuccessAfterError ==
  \A r \in Runs :
    "success_finished" \in msgs[r] =>
      msgs[r] \cap {"error_generation", "error_streaming"} = {}
====
